---- MODULE Spec2Model ----
(***************************************************************************)
(* Offline-first write queue, cache-strategy engine (service-worker.js)    *)
(* and realtime fan-out hub (server.js) as state machines.                 *)
(*                                                                         *)
(* Three specifications share the module, one per subsystem; each leaves   *)
(* the other subsystems' variables unchanged:                              *)
(*   SpecQueue  - handleOfflinePost, the IndexedDB store, syncOfflinePosts  *)
(*   SpecCache  - install / activate / fetch strategies / CLEAR_CACHE       *)
(*   SpecHub    - the socket.io connection handlers of server.js            *)
(***************************************************************************)
EXTENDS Integers, Sequences, FiniteSets, TLC

\* ------------------------------------------------------------------ bounds
\* The key generator of the 'posts' store is capped at MaxId entries.
MaxId == 2

\* ------------------------------------------------------------ queue state
VARIABLES
  posts,      \* object store 'posts' of IndexedDB 'OfflinePosts': set of records
  nextId,     \* the store's autoIncrement key generator (next key to hand out)
  net,        \* environment: "down" (fetch throws), "reject" (response not ok), "accept"
  dbUp,       \* environment: indexedDB.open('OfflinePosts') succeeds
  navHasSW,   \* environment: 'serviceWorker' in navigator, inside the worker scope
  drain,      \* one record per running syncOfflinePosts() invocation
  postResp,   \* what respondWith() handed to the page for the POST in hand
  delivered,  \* ids of queued entries the server has answered ok to (observer)
  acked,      \* ids of queued entries acknowledged with offline: true (observer)
  clientMsgs  \* last message each client context received from the worker

queueVars == <<posts, nextId, net, dbUp, navHasSW, drain, postResp, delivered,
               acked, clientMsgs>>

\* ------------------------------------------------------------ cache state
VARIABLES
  caches,     \* CacheStorage: cache name -> (request URL -> stored response)
  phase,      \* worker lifecycle: "new" -> "installed" -> "active"
  get         \* the GET fetch event in hand: request, handler position, answer

cacheVars == <<caches, phase, get>>

\* -------------------------------------------------------------- hub state
VARIABLES
  sockets,         \* per connection: transport state, socket.userId, handler positions
  connectedUsers,  \* the Map of server.js: user id -> socket id
  isOnline,        \* User.isOnline of each user document
  inbox,           \* per connection: the last event the server emitted to it
  relayDropped,    \* the handler that ran last was a relay that found no socket id
  lastSeen         \* User.lastSeen of each user document: the handler whose new Date() it holds

hubVars == <<sockets, connectedUsers, isOnline, inbox, relayDropped, lastSeen>>

\* ------------------------------------------------------------- chat state
VARIABLES
  rooms,           \* per connection: the chat rooms the socket has joined
  sending,         \* per connection: the sendMessage handler in progress, if any
  messages,        \* the Message collection, in the order the documents were saved
  lastMessage      \* Chat.lastMessage of each chat document

roomVars == <<rooms, sending, messages, lastMessage>>

\* ------------------------------------------------------------- feed state
VARIABLES
  feed,            \* the Post collection: post id -> owner, likedBy, number of comments
  nextPostId,      \* the id the next saved post gets
  http             \* per HTTP exchange: the route handler in progress and its response

feedVars == <<feed, nextPostId, http>>

\* What each subsystem's steps leave alone.
queueOnly == <<posts, nextId, dbUp, navHasSW, drain, postResp, delivered, acked, clientMsgs>>
notQueue == <<cacheVars, hubVars, roomVars, feedVars>>
notCache == <<queueOnly, hubVars, roomVars, feedVars>>
notClient == <<queueVars, cacheVars>>
notServer == <<notClient, feedVars>>
notHub == <<notServer, roomVars>>

\* Two sync events may overlap: event.waitUntil does not serialise them.
Drains == {"d1", "d2"}
Clients == {"w1", "w2"}
\* A new invocation takes the first free record.
DrainOrder(d) == IF d = "d1" THEN 1 ELSE 2
NetStates == {"down", "reject", "accept"}

\* The form fields of a create-post request (formData.get returns null when absent).
Mutations ==
  { [user |-> "ann", text |-> "hi", file |-> "null"] }

NoResp == [kind |-> "none"]
NoMsg == [type |-> "none", count |-> 0]
IdleDrain == [pc |-> "idle", snap |-> <<>>, idx |-> 1, sent |-> <<>>, q0 |-> {}]

Ids(S) == { p.id : p \in S }

\* store.getAll() on an object store returns its records in ascending key order.
RECURSIVE GetAllDesc(_)
GetAllDesc(S) ==
  IF S = {} THEN <<>>
  ELSE LET m == CHOOSE p \in S : \A q \in S : p.id >= q.id
       IN  <<m>> \o GetAllDesc(S \ {m})

RECURSIVE getOfflinePosts(_)
getOfflinePosts(S) ==
  IF S = {} THEN <<>>
  ELSE LET m == CHOOSE p \in S : \A q \in S : p.id <= q.id
       IN  <<m>> \o getOfflinePosts(S \ {m})

\* store.add({...postData}) with keyPath 'id', autoIncrement: the record gets the
\* generator's current key; the generator never hands a key out twice.
StoreUnderFirstFreeKey(S, k, m) ==
  S \cup { [id |-> Cardinality(S) + 1, user |-> m.user, text |-> m.text, file |-> m.file] }

storeOfflinePost(S, k, m) ==
  S \cup { [id |-> k, user |-> m.user, text |-> m.text, file |-> m.file] }

\* store.delete(id): removes the record with that key; an absent key is no error.
RemoveNothing(S, k) == S
RemoveEverything(S, k) == {}

removeOfflinePost(S, k) == { p \in S : p.id # k }

QueueInit ==
  /\ posts = {}
  /\ nextId = 1
  /\ net \in NetStates
  /\ dbUp \in BOOLEAN
  /\ navHasSW \in BOOLEAN
  /\ drain = [d \in Drains |-> IdleDrain]
  /\ postResp = NoResp
  /\ delivered = {}
  /\ acked = {}
  /\ clientMsgs = [c \in Clients |-> NoMsg]

\* ----------------------------------------------------------- environment
NetChange ==
  /\ \E n \in NetStates : n # net /\ net' = n
  /\ UNCHANGED <<posts, nextId, dbUp, navHasSW, drain, postResp, delivered, acked, clientMsgs>>
  /\ UNCHANGED notQueue

DbChange ==
  /\ dbUp' = ~dbUp
  /\ UNCHANGED <<posts, nextId, net, navHasSW, drain, postResp, delivered, acked, clientMsgs>>
  /\ UNCHANGED notQueue

\* The page takes the response of its POST; the next POST can be handled.
PageTakesResponse ==
  /\ postResp # NoResp
  /\ postResp' = NoResp
  /\ UNCHANGED <<posts, nextId, net, dbUp, navHasSW, drain, delivered, acked, clientMsgs>>
  /\ UNCHANGED notQueue

\* ------------------------------------------------------ handleOfflinePost
\* The catch branch of handleOfflinePost, as far as the caller and the store see it.
\*   bodyReadable: request.formData() resolves although fetch(request) was handed
\*                 the same, uncloned request;
\*   db:           storeOfflinePost resolves (openOfflineDB and store.add succeed);
\*   hasSW:        'serviceWorker' in navigator; when it holds, the right operand
\*                 reads window, which the worker scope does not define, and the
\*                 ReferenceError leaves the handler after the entry was stored.
\*   registered:   sync.register('background-post') was called; line 210 is
\*                 behind the condition of line 209, which is false when hasSW
\*                 does not hold and throws when it does: no branch reaches it.
CatchHidesStorageError(bodyReadable, db, hasSW) ==
  IF ~bodyReadable THEN [kind |-> "error", why |-> "formData", stored |-> FALSE, registered |-> FALSE]
  ELSE IF ~db THEN [kind |-> "offline", why |-> "none", stored |-> FALSE, registered |-> FALSE]
  ELSE IF hasSW THEN [kind |-> "error", why |-> "window", stored |-> TRUE, registered |-> FALSE]
  ELSE [kind |-> "offline", why |-> "none", stored |-> TRUE, registered |-> FALSE]

CatchOutcome(bodyReadable, db, hasSW) ==
  IF ~bodyReadable THEN [kind |-> "error", why |-> "formData", stored |-> FALSE, registered |-> FALSE]
  ELSE IF ~db THEN [kind |-> "error", why |-> "storage", stored |-> FALSE, registered |-> FALSE]
  ELSE IF hasSW THEN [kind |-> "error", why |-> "window", stored |-> TRUE, registered |-> FALSE]
  ELSE [kind |-> "offline", why |-> "none", stored |-> TRUE, registered |-> FALSE]

\* fetch listener, POST /api/posts -> handleOfflinePost(request).
handleOfflinePost(m, bodyReadable) ==
  /\ postResp = NoResp
  /\ IF net # "down"
     THEN \* try: the network response is returned as it is, ok or not
          /\ postResp' = [kind |-> "network", why |-> net, req |-> m, registered |-> FALSE]
          /\ UNCHANGED <<posts, nextId, acked>>
     ELSE \* catch (error)
          LET o == CatchOutcome(bodyReadable, dbUp, navHasSW) IN
          /\ postResp' = [kind |-> o.kind, why |-> o.why, req |-> m,
                          registered |-> o.registered]
          /\ IF o.stored
             THEN /\ nextId <= MaxId
                  /\ posts' = storeOfflinePost(posts, nextId, m)
                  /\ nextId' = nextId + 1
             ELSE UNCHANGED <<posts, nextId>>
          /\ acked' = IF o.stored /\ o.kind = "offline" THEN acked \cup {nextId} ELSE acked
  /\ UNCHANGED <<net, dbUp, navHasSW, drain, delivered, clientMsgs>>
  /\ UNCHANGED notQueue

HandlePost == \E m \in Mutations, b \in BOOLEAN : handleOfflinePost(m, b)

\* ------------------------------------------------------- syncOfflinePosts
\* self.addEventListener('sync'): tag 'background-post' starts a drain, any
\* other tag does nothing.  getOfflinePosts() rejecting lands in the outer catch.
SyncEvent(d, tag) ==
  /\ drain[d].pc = "idle"
  /\ \A e \in Drains : DrainOrder(e) < DrainOrder(d) => drain[e].pc # "idle"
  /\ IF tag = "background-post" /\ dbUp
     THEN drain' = [drain EXCEPT ![d] =
            [pc |-> "loop", snap |-> getOfflinePosts(posts), idx |-> 1,
             sent |-> <<>>, q0 |-> posts]]
     ELSE drain' = [drain EXCEPT ![d] = IdleDrain]
  /\ UNCHANGED <<posts, nextId, net, dbUp, navHasSW, postResp, delivered, acked, clientMsgs>>
  /\ UNCHANGED notQueue

\* for (const post of offlinePosts) { ... await fetch('/api/posts', {POST, formData})
DrainFetch(d) ==
  /\ drain[d].pc = "loop"
  /\ drain[d].idx <= Len(drain[d].snap)
  /\ drain' = [drain EXCEPT ![d].pc = "await",
                            ![d].sent = Append(@, drain[d].snap[drain[d].idx].id)]
  /\ UNCHANGED <<posts, nextId, net, dbUp, navHasSW, postResp, delivered, acked, clientMsgs>>
  /\ UNCHANGED notQueue

\* The inner try/catch of the loop body: whether the replay failed or not, the
\* for loop goes on with the next entry of the snapshot.
AbortOnFailure(failed, idx, len) == IF failed THEN len + 1 ELSE idx + 1
AfterReplay(failed, idx, len) == idx + 1

\* The fetch settles: it throws, or answers not ok, or answers ok and then
\* await removeOfflinePost(post.id) runs (and may itself reject); every failure
\* is caught by the inner catch and the loop goes on.
DrainSettle(d, ok) ==
  LET post == drain[d].snap[drain[d].idx]
      failed == ~ok \/ ~dbUp
  IN
  /\ drain[d].pc = "await"
  /\ drain' = [drain EXCEPT ![d].pc = "loop",
                            ![d].idx = AfterReplay(failed, @, Len(drain[d].snap))]
  /\ IF ok
     THEN /\ delivered' = delivered \cup {post.id}
          /\ posts' = IF dbUp THEN removeOfflinePost(posts, post.id) ELSE posts
     ELSE UNCHANGED <<posts, delivered>>
  /\ UNCHANGED <<nextId, net, dbUp, navHasSW, postResp, acked, clientMsgs>>
  /\ UNCHANGED notQueue

\* The remote API taken as a network state: it answers ok when net is "accept".
DrainResponse(d) == DrainSettle(d, net = "accept")

\* The notification: `${offlinePosts.length} offline posts synced successfully`.
SyncCompleteWithoutCount(snap) == [type |-> "SYNC_COMPLETE", count |-> 0]
SyncComplete(snap) == [type |-> "SYNC_COMPLETE", count |-> Len(snap)]

\* After the loop: clients.matchAll() and postMessage(SYNC_COMPLETE) to each.
DrainNotify(d) ==
  /\ drain[d].pc = "loop"
  /\ drain[d].idx > Len(drain[d].snap)
  /\ clientMsgs' = [c \in Clients |-> SyncComplete(drain[d].snap)]
  /\ drain' = [drain EXCEPT ![d] = IdleDrain]
  /\ UNCHANGED <<posts, nextId, net, dbUp, navHasSW, postResp, delivered, acked>>
  /\ UNCHANGED notQueue

Sync == \E d \in Drains, tag \in {"background-post", "other-tag"} : SyncEvent(d, tag)
Fetch == \E d \in Drains : DrainFetch(d)
Response == \E d \in Drains : DrainResponse(d)
Notify == \E d \in Drains : DrainNotify(d)

QueueNext ==
  \/ NetChange
  \/ DbChange
  \/ PageTakesResponse
  \/ HandlePost
  \/ Sync
  \/ Fetch
  \/ Response
  \/ Notify

vars == <<queueVars, cacheVars, hubVars, roomVars, feedVars>>

\* ============================================================ cache engine
\* Cache names, character by character, so that includes('v4') is a real
\* substring test.
STATIC_CACHE == <<"s","t","a","t","i","c","-","v","4">>
DYNAMIC_CACHE == <<"d","y","n","a","m","i","c","-","v","4">>
MEDIA_CACHE == <<"m","e","d","i","a","-","v","4">>
\* The literal of the activate listener's test.
ActivateLiteral == <<"v","4">>
\* Caches other deployments of the worker left behind on the origin.
LegacyCaches ==
  { <<"s","t","a","t","i","c","-","v","3">>,
    <<"d","y","n","a","m","i","c","-","v","4","0">> }

\* String.prototype.includes
Includes(str, sub) ==
  \E i \in 1..(Len(str) - Len(sub) + 1) : SubSeq(str, i, i + Len(sub) - 1) = sub

\* URL paths as their '/'-separated segments: '/' is <<"">>, '/api/posts' is
\* <<"api","posts">>.  Every STATIC_ASSETS string starts with '/', so
\* pathname.endsWith(asset) compares whole trailing segments.
STATIC_ASSETS ==
  { <<"">>, <<"index.html">>, <<"all.html">>, <<"info.html">>, <<"admin.html">>,
    <<"style.css">>, <<"manifest.json">>, <<"icon.png">> }
Url(path, query) == [path |-> path, query |-> query]
IndexUrl == Url(<<"index.html">>, "")
StyleUrl == Url(<<"style.css">>, "")
PostsUrl == Url(<<"api", "posts">>, "")
ContentUrl == Url(<<"api", "posts">>, "limit=5")
VideoUrl == Url(<<"uploads", "video.mp4">>, "")
FeedUrl == Url(<<"feed">>, "")
\* GET requests the pages issue: URL, Range header present, request.mode.
Get(u, r, m) == [method |-> "GET", url |-> u, range |-> r, mode |-> m]
Requests ==
  { Get(StyleUrl, FALSE, "cors"), Get(StyleUrl, TRUE, "cors"),
    Get(VideoUrl, FALSE, "cors"), Get(VideoUrl, TRUE, "cors"),
    Get(PostsUrl, FALSE, "cors"),
    Get(FeedUrl, FALSE, "navigate"), Get(FeedUrl, FALSE, "cors"),
    Get(FeedUrl, TRUE, "cors"), Get(IndexUrl, FALSE, "navigate") }

Statuses == {200, 204, 206, 404}
\* What the server may answer: 206 Partial Content only to a Range request.
Answers(req) == IF req.range THEN Statuses ELSE Statuses \ {206}
\* Response.ok
Ok(status) == status >= 200 /\ status <= 299

StartsWithSeg(path, seg) == Len(path) >= 2 /\ path[1] = seg
EndsWithPath(path, asset) ==
  /\ Len(path) >= Len(asset)
  /\ SubSeq(path, Len(path) - Len(asset) + 1, Len(path)) = asset
IsStaticAsset(path) ==
  \E asset \in STATIC_ASSETS : path = asset \/ EndsWithPath(path, asset)

\* The fetch listener's dispatch.
RouteNavigationsFirst(req) ==
  IF req.method # "GET"
  THEN IF req.method = "POST" /\ req.url.path = <<"api", "posts">>
       THEN "offlinePost" ELSE "passthrough"
  ELSE IF req.mode = "navigate" THEN "navigate"
  ELSE IF StartsWithSeg(req.url.path, "api") THEN "networkFirst"
  ELSE IF StartsWithSeg(req.url.path, "uploads") THEN "media"
  ELSE IF IsStaticAsset(req.url.path) THEN "cacheFirst"
  ELSE "default"
RouteIgnoresMethod(req) ==
  IF StartsWithSeg(req.url.path, "api") THEN "networkFirst"
  ELSE IF StartsWithSeg(req.url.path, "uploads") THEN "media"
  ELSE IF IsStaticAsset(req.url.path) THEN "cacheFirst"
  ELSE IF req.mode = "navigate" THEN "navigate"
  ELSE "default"
Route(req) ==
  IF req.method # "GET"
  THEN IF req.method = "POST" /\ req.url.path = <<"api", "posts">>
       THEN "offlinePost" ELSE "passthrough"
  ELSE IF StartsWithSeg(req.url.path, "api") THEN "networkFirst"
  ELSE IF StartsWithSeg(req.url.path, "uploads") THEN "media"
  ELSE IF IsStaticAsset(req.url.path) THEN "cacheFirst"
  ELSE IF req.mode = "navigate" THEN "navigate"
  ELSE "default"

NoEntry == [status |-> 0, ranged |-> FALSE]
StoredEntry(status, range) == [status |-> status, ranged |-> range]

\* caches.open(name): creates the cache when the origin has none of that name.
Open(cs, name) == IF name \in DOMAIN cs THEN cs ELSE (name :> <<>>) @@ cs
\* cache.put(request, response) on the cache of that name.
Put(cs, name, url, entry) ==
  LET o == Open(cs, name) IN
  [n \in DOMAIN o |-> IF n = name THEN (url :> entry) @@ o[n] ELSE o[n]]
\* cache.put(request, response) rejects for a partial response (status 206);
\* the strategies do not await it, so the rejection is lost and nothing is stored.
PutTakesAnything(status) == TRUE
PutAccepts(status) == status # 206

\* caches.match(request): the caches holding an entry for the URL.
Matches(cs, url) == { n \in DOMAIN cs : url \in DOMAIN cs[n] }

\* activate: which caches survive (the others are deleted).
KeepOnActivate(name) == Includes(name, ActivateLiteral)

\* handleMediaRequest: if (cachedResponse && !request.headers.get('range'))
ShortCircuitIgnoresRange(hit, range) == hit
MediaShortCircuit(hit, range) == hit /\ ~range

\* handleMediaRequest: status === 200 && !range, inside if (networkResponse.ok)
MediaStoresAnyOk(status, range) == Ok(status)
MediaShouldStore(status, range) == Ok(status) /\ status = 200 /\ ~range

\* handleMediaRequest, catch: if (cachedResponse) return cachedResponse
\* and, when the fetch resolved, return networkResponse.
MediaPrefersCache(threw, held) == IF held # NoEntry THEN "cache" ELSE IF threw THEN "error" ELSE "network"
MediaAnswer(threw, held) ==
  IF ~threw THEN "network" ELSE IF held # NoEntry THEN "cache" ELSE "error"

\* cacheFirstStrategy: if (cachedResponse) return cachedResponse
CacheFirstAlwaysFetches(matches) == FALSE
CacheFirstHit(matches) == matches # {}

NoName == <<>>
IdleGet ==
  [pc |-> "idle", req |-> Get(IndexUrl, FALSE, "cors"),
   strategy |-> "none", inAny |-> FALSE, inMedia |-> FALSE, held |-> NoEntry,
   fetched |-> FALSE, threw |-> FALSE, src |-> "none", from |-> NoName, status |-> 0]

LegacyContent(name) ==
  IF name = <<"s","t","a","t","i","c","-","v","3">>
  THEN (StyleUrl :> StoredEntry(200, FALSE))
  ELSE (PostsUrl :> StoredEntry(200, FALSE))

CacheInit ==
  /\ \E L \in SUBSET LegacyCaches : caches = [n \in L |-> LegacyContent(n)]
  /\ phase = "new"
  /\ get = IdleGet
  /\ net \in {"down", "accept"}

\* Values of the cache variables while another subsystem is being checked.
CacheRest == caches = <<>> /\ phase = "new" /\ get = IdleGet
QueueRest ==
  /\ posts = {} /\ nextId = 1 /\ dbUp = TRUE /\ navHasSW = FALSE
  /\ drain = [d \in Drains |-> IdleDrain] /\ postResp = NoResp
  /\ delivered = {} /\ acked = {} /\ clientMsgs = [c \in Clients |-> NoMsg]

Connectivity ==
  /\ net' = IF net = "down" THEN "accept" ELSE "down"
  /\ UNCHANGED <<cacheVars, notCache>>

\* install: caches.open(STATIC_CACHE) then cache.addAll(STATIC_ASSETS); addAll
\* stores all or nothing, and a rejection is caught and logged.
Install ==
  /\ phase = "new"
  /\ phase' = "installed"
  /\ caches' =
       IF net = "down" THEN Open(caches, STATIC_CACHE)
       ELSE LET o == Open(caches, STATIC_CACHE) IN
            [n \in DOMAIN o |->
               IF n = STATIC_CACHE
               THEN [u \in DOMAIN o[n] \cup { Url(a, "") : a \in STATIC_ASSETS } |->
                       IF u.path \in STATIC_ASSETS /\ u.query = ""
                       THEN StoredEntry(200, FALSE) ELSE o[n][u]]
               ELSE o[n]]
  /\ UNCHANGED <<get, net, notCache>>

\* activate: caches.keys(), delete every name failing the test, clients.claim().
Activate ==
  /\ phase = "installed"
  /\ phase' = "active"
  /\ caches' = [n \in { x \in DOMAIN caches : KeepOnActivate(x) } |-> caches[n]]
  /\ UNCHANGED <<get, net, notCache>>

\* message CLEAR_CACHE: every cache of the origin is deleted.
ClearCache ==
  /\ phase # "new"
  /\ caches' = <<>>
  /\ UNCHANGED <<phase, get, net, notCache>>

\* periodicsync 'content-sync' -> syncContent(): response.json() throws on the
\* empty body of a 204, and the catch logs it.
SyncContent ==
  /\ phase = "active"
  /\ net # "down"
  /\ \E status \in Answers(Get(ContentUrl, FALSE, "cors")) :
       caches' = IF Ok(status) /\ status # 204
                 THEN Put(caches, DYNAMIC_CACHE, ContentUrl, StoredEntry(200, FALSE))
                 ELSE caches
  /\ UNCHANGED <<phase, get, net, notCache>>

\* fetch event for a GET: the dispatch and the handler up to its first fetch().
FetchEvent(req) ==
  LET st == Route(req)
      any == Matches(caches, req.url)
      oc == Open(caches, MEDIA_CACHE)
      hit == req.url \in DOMAIN oc[MEDIA_CACHE]
      base == [IdleGet EXCEPT !.req = req, !.strategy = st,
                              !.inAny = (any # {}), !.inMedia = hit]
  IN
  /\ phase = "active"
  /\ get.pc = "idle"
  /\ st \in {"networkFirst", "media", "cacheFirst", "navigate", "default"}
  /\ IF st = "cacheFirst"
     THEN /\ caches' = caches
          /\ IF CacheFirstHit(any)
             THEN \E n \in any :
                    get' = [base EXCEPT !.pc = "done", !.src = "cache", !.from = n,
                                        !.status = caches[n][req.url].status]
             ELSE get' = [base EXCEPT !.pc = "fetching", !.fetched = TRUE]
     ELSE IF st = "media"
     THEN /\ caches' = oc
          /\ IF MediaShortCircuit(hit, req.range)
             THEN get' = [base EXCEPT !.pc = "done", !.src = "cache", !.from = MEDIA_CACHE,
                                      !.status = oc[MEDIA_CACHE][req.url].status]
             ELSE get' = [base EXCEPT !.pc = "fetching", !.fetched = TRUE,
                                      !.held = IF hit THEN oc[MEDIA_CACHE][req.url] ELSE NoEntry]
     ELSE /\ caches' = caches
          /\ get' = [base EXCEPT !.pc = "fetching", !.fetched = TRUE]
  /\ UNCHANGED <<phase, net, notCache>>

\* networkFirstStrategy, catch: the cached response if caches.match finds one;
\* else, for a navigation, whatever caches.match('/index.html') resolves to,
\* the document or undefined; else the error is rethrown.
OfflineDocForAll(matched, navigate, hasIndex) ==
  IF matched THEN "cache" ELSE IF hasIndex THEN "offlineDoc" ELSE "undefined"
FallbackSource(matched, navigate, hasIndex) ==
  IF matched THEN "cache"
  ELSE IF navigate THEN (IF hasIndex THEN "offlineDoc" ELSE "undefined")
  ELSE "error"

\* networkFirstStrategy after its fetch() has thrown.
NetworkFirstFallback ==
  LET any == Matches(caches, get.req.url)
      idx == Matches(caches, IndexUrl)
      src == FallbackSource(any # {}, get.req.mode = "navigate", idx # {})
  IN
  IF src = "cache"
  THEN \E n \in any :
         get' = [get EXCEPT !.pc = "done", !.threw = TRUE, !.src = "cache", !.from = n,
                            !.status = caches[n][get.req.url].status]
  ELSE IF src = "offlineDoc"
  THEN \E n \in idx :
         get' = [get EXCEPT !.pc = "done", !.threw = TRUE, !.src = "offlineDoc",
                            !.from = n, !.status = caches[n][IndexUrl].status]
  ELSE get' = [get EXCEPT !.pc = "done", !.threw = TRUE, !.src = src]

\* The handler's fetch() settles: it throws when the network is down, else it
\* resolves with some status; the handler stores and answers accordingly.
FetchSettles ==
  /\ get.pc = "fetching"
  /\ IF net = "down"
     THEN /\ caches' = caches
          /\ IF get.strategy = "media"
             THEN LET a == MediaAnswer(TRUE, get.held) IN
                  get' = [get EXCEPT !.pc = "done", !.threw = TRUE, !.src = a,
                            !.from = IF a = "cache" THEN MEDIA_CACHE ELSE NoName,
                            !.status = IF a = "cache" THEN get.held.status ELSE 0]
             ELSE IF get.strategy = "cacheFirst"
             THEN get' = [get EXCEPT !.pc = "done", !.threw = TRUE, !.src = "error"]
             ELSE NetworkFirstFallback
     ELSE \E status \in Answers(get.req) :
          IF get.strategy = "media"
          THEN LET a == MediaAnswer(FALSE, get.held) IN
               /\ caches' = IF MediaShouldStore(status, get.req.range) /\ MEDIA_CACHE \in DOMAIN caches
                            THEN Put(caches, MEDIA_CACHE, get.req.url, StoredEntry(status, get.req.range))
                            ELSE caches
               /\ get' = [get EXCEPT !.pc = "done", !.src = a,
                            !.from = IF a = "cache" THEN MEDIA_CACHE ELSE NoName,
                            !.status = IF a = "cache" THEN get.held.status ELSE status]
          ELSE IF get.strategy = "cacheFirst"
          THEN /\ caches' = IF Ok(status)
                            THEN IF PutAccepts(status)
                                 THEN Put(caches, STATIC_CACHE, get.req.url, StoredEntry(status, get.req.range))
                                 ELSE Open(caches, STATIC_CACHE)
                            ELSE caches
               /\ get' = [get EXCEPT !.pc = "done", !.src = "network", !.status = status]
          ELSE /\ caches' = IF Ok(status)
                            THEN IF get.req.method = "GET" /\ PutAccepts(status)
                                 THEN Put(caches, DYNAMIC_CACHE, get.req.url, StoredEntry(status, get.req.range))
                                 ELSE Open(caches, DYNAMIC_CACHE)
                            ELSE caches
               /\ get' = [get EXCEPT !.pc = "done", !.src = "network", !.status = status]
  /\ UNCHANGED <<phase, net, notCache>>

\* The page takes the answer; the next fetch event can be handled.
PageTakesAnswer ==
  /\ get.pc = "done"
  /\ get' = IdleGet
  /\ UNCHANGED <<caches, phase, net, notCache>>

Fetches == \E req \in Requests : FetchEvent(req)

CacheNext ==
  \/ Connectivity
  \/ Install
  \/ Activate
  \/ ClearCache
  \/ SyncContent
  \/ Fetches
  \/ FetchSettles
  \/ PageTakesAnswer

\* ------------------------------------------------------- message listeners
\* Both message listeners run for every message.  SKIP_WAITING calls
\* self.skipWaiting(); GET_OFFLINE_COUNT answers the sender with the length of
\* getOfflinePosts() (nothing is answered when the store cannot be opened);
\* CLEAR_CACHE deletes every cache.  None of them writes to the object store.
MessageTypes == {"SKIP_WAITING", "GET_OFFLINE_COUNT", "CLEAR_CACHE"}
WorkerMessage(c, type) ==
  /\ phase # "new"
  /\ clientMsgs' = IF type = "GET_OFFLINE_COUNT" /\ dbUp
                   THEN [clientMsgs EXCEPT ![c] =
                           [type |-> "OFFLINE_COUNT", count |-> Len(getOfflinePosts(posts))]]
                   ELSE clientMsgs
  /\ caches' = IF type = "CLEAR_CACHE" THEN <<>> ELSE caches
  /\ UNCHANGED <<posts, nextId, net, dbUp, navHasSW, drain, postResp, delivered, acked>>
  /\ UNCHANGED <<phase, get, hubVars, roomVars, feedVars>>

WorkerMessages == \E c \in Clients, type \in MessageTypes : WorkerMessage(c, type)
FirstSync == SyncEvent("d1", "background-post")

\* Every operation of the worker that is not the handling of a GET.
LifecycleNext ==
  \/ Connectivity
  \/ DbChange
  \/ Install
  \/ Activate
  \/ SyncContent
  \/ WorkerMessages
  \/ HandlePost
  \/ PageTakesResponse
  \/ FirstSync
  \/ Fetch
  \/ Response
  \/ Notify

\* ------------------------------------------------------ non-GET requests
\* Requests with another method than GET, as the pages issue them.
LikeUrl == Url(<<"api", "posts", "1", "like">>, "")
Req(mth, u) == [method |-> mth, url |-> u, range |-> FALSE, mode |-> "cors"]
NonGetRequests ==
  { Req("POST", PostsUrl), Req("POST", LikeUrl), Req("DELETE", PostsUrl),
    Req("DELETE", VideoUrl), Req("PUT", StyleUrl) }
DispatchRequests ==
  { Get(StyleUrl, FALSE, "cors"), Get(VideoUrl, FALSE, "cors"),
    Get(PostsUrl, FALSE, "cors"), Get(FeedUrl, FALSE, "navigate") } \cup NonGetRequests

\* fetch listener, request.method !== 'GET' and not POST /api/posts: the
\* listener returns without event.respondWith, the browser performs the
\* request itself and the worker touches neither the caches nor the queue.
PassThrough(req) ==
  /\ phase = "active"
  /\ get.pc = "idle"
  /\ Route(req) = "passthrough"
  /\ get' = [IdleGet EXCEPT !.pc = "done", !.req = req,
                            !.strategy = "passthrough", !.src = "browser"]
  /\ UNCHANGED <<caches, phase, net, notCache>>

\* fetch listener, POST /api/posts: event.respondWith(handleOfflinePost(request)).
OfflinePost(req) ==
  /\ phase = "active"
  /\ Route(req) = "offlinePost"
  /\ HandlePost

DispatchFetches == \E req \in DispatchRequests : FetchEvent(req)
PassThroughs == \E req \in DispatchRequests : PassThrough(req)
OfflinePosts == \E req \in DispatchRequests : OfflinePost(req)

DispatchNext ==
  \/ Connectivity
  \/ Install
  \/ Activate
  \/ DispatchFetches
  \/ FetchSettles
  \/ PageTakesAnswer
  \/ PassThroughs
  \/ OfflinePosts
  \/ PageTakesResponse

\* ============================================================ fan-out hub
Conns == {"s1", "s2"}
Users == {"u1", "u2"}
\* Tokens a client may present: one that verifies for each user, one that
\* verifies for a user whose document is gone, one that does not verify.
Tokens == {"jwt-u1", "jwt-u2", "jwt-gone", "garbage"}
\* jwt.verify(token, JWT_SECRET): the decoded userId, or "throws".
Verify(token) ==
  IF token = "jwt-u1" THEN "u1"
  ELSE IF token = "jwt-u2" THEN "u2"
  ELSE IF token = "jwt-gone" THEN "gone"
  ELSE "throws"

NoEvent == [name |-> "none", user |-> "null"]
NewSocket ==
  [st |-> "new", userId |-> "null", auth |-> "idle", authUser |-> "null", disc |-> "idle"]

\* An emit reaches the connected sockets among its addressees; inbox keeps the
\* last event each connection received.
Deliver(box, to, name, user) ==
  [c \in DOMAIN box |->
     IF c \in to /\ sockets[c].st = "open"
     THEN [name |-> name, user |-> user]
     ELSE box[c]]

\* socket.emit: the connection the handler belongs to.
EmitReachesAll(c) == Conns
socketEmit(c) == {c}

\* socket.broadcast.emit: every connection except the sender.
BroadcastIncludesSender(c) == Conns
socketBroadcast(c) == Conns \ {c}

\* connectedUsers.get(id): the socket id, or "undefined".
RelayOrEcho(map, sockId, target) ==
  IF target \in DOMAIN map THEN map[target] ELSE sockId
RelayTarget(map, sockId, target) ==
  IF target \in DOMAIN map THEN map[target] ELSE "undefined"

\* connectedUsers.set(id, socket.id): a Map keeps one value per key.
SetKeepsFirst(map, user, sockId) == map @@ (user :> sockId)
connectedUsersSet(map, user, sockId) == (user :> sockId) @@ map

\* connectedUsers.delete(id)
DeleteKeepsEntry(map, user) == map
connectedUsersDelete(map, user) == [u \in DOMAIN map \ {user} |-> map[u]]

HubInit ==
  /\ sockets = [c \in Conns |-> NewSocket]
  /\ connectedUsers = <<>>
  /\ isOnline = [u \in Users |-> FALSE]
  /\ inbox = [c \in Conns |-> NoEvent]
  /\ relayDropped = FALSE
  /\ lastSeen = [u \in Users |-> "never"]

\* io.on('connection')
Connect(c) ==
  /\ sockets[c].st = "new"
  /\ sockets' = [sockets EXCEPT ![c].st = "open"]
  /\ relayDropped' = FALSE
  /\ UNCHANGED <<connectedUsers, isOnline, lastSeen, inbox, notHub>>

\* socket.on('authenticate'): jwt.verify, then await User.findById
Authenticate(c, token) ==
  /\ sockets[c].st = "open"
  /\ sockets[c].auth = "idle"
  /\ IF Verify(token) = "throws"
     THEN /\ inbox' = Deliver(inbox, socketEmit(c), "authError", "null")
          /\ UNCHANGED sockets
     ELSE /\ sockets' = [sockets EXCEPT ![c].auth = "findById", ![c].authUser = Verify(token)]
          /\ UNCHANGED inbox
  /\ relayDropped' = FALSE
  /\ UNCHANGED <<connectedUsers, isOnline, lastSeen, notHub>>

\* findById resolved: if (user) { socket.userId = ...; connectedUsers.set(...);
\* await User.findByIdAndUpdate(...)
AuthFound(c) ==
  /\ sockets[c].auth = "findById"
  /\ IF sockets[c].authUser \in Users
     THEN /\ sockets' = [sockets EXCEPT ![c].auth = "update", ![c].userId = sockets[c].authUser]
          /\ connectedUsers' = connectedUsersSet(connectedUsers, sockets[c].authUser, c)
     ELSE /\ sockets' = [sockets EXCEPT ![c].auth = "idle", ![c].authUser = "null"]
          /\ UNCHANGED connectedUsers
  /\ relayDropped' = FALSE
  /\ UNCHANGED <<isOnline, lastSeen, inbox, notHub>>

\* the update resolved: socket.emit('authenticated'), socket.broadcast.emit('userOnline')
AuthDone(c) ==
  /\ sockets[c].auth = "update"
  /\ isOnline' = [isOnline EXCEPT ![sockets[c].authUser] = TRUE]
  /\ lastSeen' = [lastSeen EXCEPT ![sockets[c].authUser] = "authenticate"]
  /\ inbox' = Deliver(Deliver(inbox, socketEmit(c), "authenticated", sockets[c].authUser),
                      socketBroadcast(c), "userOnline", sockets[c].authUser)
  /\ sockets' = [sockets EXCEPT ![c].auth = "idle", ![c].authUser = "null"]
  /\ relayDropped' = FALSE
  /\ UNCHANGED <<connectedUsers, notHub>>

\* socket.on('initiateCall' | 'callResponse' | 'webrtc-signal'): look the target
\* up in connectedUsers and, if (targetSocketId), io.to(targetSocketId).emit(...)
RelayEvents == {"incomingCall", "callResponse", "webrtc-signal"}
Relay(c, name, target) ==
  LET sid == RelayTarget(connectedUsers, c, target) IN
  /\ sockets[c].st = "open"
  /\ IF sid # "undefined"
     THEN inbox' = Deliver(inbox, {sid}, name, sockets[c].userId)
     ELSE inbox' = inbox
  /\ relayDropped' = (target \notin DOMAIN connectedUsers)
  /\ UNCHANGED <<sockets, connectedUsers, isOnline, lastSeen, notHub>>

\* socket.on('disconnect'): if (socket.userId) { connectedUsers.delete(...);
\* await User.findByIdAndUpdate(...).  A disconnected socket has left its rooms.
Disconnect(c) ==
  /\ sockets[c].st = "open"
  /\ IF sockets[c].userId # "null"
     THEN /\ sockets' = [sockets EXCEPT ![c].st = "closed", ![c].disc = sockets[c].userId]
          /\ connectedUsers' = connectedUsersDelete(connectedUsers, sockets[c].userId)
     ELSE /\ sockets' = [sockets EXCEPT ![c].st = "closed"]
          /\ UNCHANGED connectedUsers
  /\ relayDropped' = FALSE
  /\ rooms' = [rooms EXCEPT ![c] = {}]
  /\ UNCHANGED <<isOnline, lastSeen, inbox, sending, messages, lastMessage, notServer>>

\* the update resolved (its target was read when the handler started):
\* socket.broadcast.emit('userOffline') with the socket's userId as it is now
DisconnectDone(c) ==
  /\ sockets[c].disc # "idle"
  /\ isOnline' = [isOnline EXCEPT ![sockets[c].disc] = FALSE]
  /\ lastSeen' = [lastSeen EXCEPT ![sockets[c].disc] = "disconnect"]
  /\ inbox' = Deliver(inbox, socketBroadcast(c), "userOffline", sockets[c].userId)
  /\ sockets' = [sockets EXCEPT ![c].disc = "idle"]
  /\ relayDropped' = FALSE
  /\ UNCHANGED <<connectedUsers, notHub>>

Connects == \E c \in Conns : Connect(c)
Authenticates == \E c \in Conns, t \in Tokens : Authenticate(c, t)
AuthFinds == \E c \in Conns : AuthFound(c)
AuthCompletes == \E c \in Conns : AuthDone(c)
Relays == \E c \in Conns, e \in RelayEvents, t \in Users : Relay(c, e, t)
Disconnects == \E c \in Conns : Disconnect(c)
DisconnectCompletes == \E c \in Conns : DisconnectDone(c)

HubNext ==
  \/ Connects
  \/ Authenticates
  \/ AuthFinds
  \/ AuthCompletes
  \/ Relays
  \/ Disconnects
  \/ DisconnectCompletes

\* ------------------------------------------------------------ chat rooms
Chats == {"chatA", "chatB"}
Contents == {"hi"}
MaxMessages == 2
\* The sendMessage handlers of one connection that have started and not yet
\* finished, in the order in which their events arrived; none at first.
IdleSend == <<>>
Without(s, i) == SubSeq(s, 1, i - 1) \o SubSeq(s, i + 1, Len(s))
InSave(c) == { i \in 1..Len(sending[c]) : sending[c][i].pc = "save" }

\* io.to(room): the sockets joined to the room; socket.to(room): the same
\* without the sending socket.
ToEveryone(rms, room) == Conns
ioTo(rms, room) == { d \in Conns : room \in rms[d] }
socketTo(rms, c, room) == ioTo(rms, room) \ {c}

RoomsInit ==
  /\ rooms = [c \in Conns |-> {}]
  /\ sending = [c \in Conns |-> IdleSend]
  /\ messages = <<>>
  /\ lastMessage = [r \in Chats |-> "none"]

\* socket.on('joinChat'): socket.join(chatId)
JoinChat(c, chatId) ==
  /\ sockets[c].st = "open"
  /\ rooms' = [rooms EXCEPT ![c] = @ \cup {chatId}]
  /\ relayDropped' = FALSE
  /\ UNCHANGED <<sockets, connectedUsers, isOnline, lastSeen, inbox,
                 sending, messages, lastMessage, notServer>>

\* socket.on('leaveChat'): socket.leave(chatId)
LeaveChat(c, chatId) ==
  /\ sockets[c].st = "open"
  /\ rooms' = [rooms EXCEPT ![c] = @ \ {chatId}]
  /\ relayDropped' = FALSE
  /\ UNCHANGED <<sockets, connectedUsers, isOnline, lastSeen, inbox,
                 sending, messages, lastMessage, notServer>>

\* if (!socket.userId): the socket carries no identity.
NeverChecked(userId) == FALSE
NotAuthenticated(userId) == userId = "null"

\* socket.on('sendMessage') up to await message.save(): without socket.userId
\* the handler emits error to the caller and returns.  The listener is called
\* for every event as it arrives; nothing waits for the promise of an earlier
\* call, so a handler may start while earlier ones are suspended at an await.
SendMessage(c, chatId, content) ==
  /\ sockets[c].st = "open"
  /\ IF NotAuthenticated(sockets[c].userId)
     THEN /\ inbox' = Deliver(inbox, socketEmit(c), "error", "null")
          /\ UNCHANGED sending
     ELSE /\ Len(messages) + Cardinality(UNION { {<<d, i>> : i \in InSave(d)} : d \in Conns })
               < MaxMessages
          /\ sending' = [sending EXCEPT ![c] =
                Append(@, [pc |-> "save", chatId |-> chatId,
                           sender |-> sockets[c].userId, content |-> content])]
          /\ UNCHANGED inbox
  /\ relayDropped' = FALSE
  /\ UNCHANGED <<sockets, connectedUsers, isOnline, lastSeen, rooms, messages, lastMessage, notServer>>

\* message.save() and message.populate() resolved; Chat.findByIdAndUpdate issued.
MessageSaved(c, i) ==
  /\ sending[c][i].pc = "save"
  /\ messages' = Append(messages, [chatId |-> sending[c][i].chatId, sender |-> sending[c][i].sender,
                                   content |-> sending[c][i].content])
  /\ sending' = [sending EXCEPT ![c][i].pc = "update"]
  /\ relayDropped' = FALSE
  /\ UNCHANGED <<sockets, connectedUsers, isOnline, lastSeen, inbox, rooms, lastMessage, notServer>>

\* the chat update resolved: io.to(chatId).emit('newMessage', ...)
ChatUpdated(c, i) ==
  /\ sending[c][i].pc = "update"
  /\ lastMessage' = [lastMessage EXCEPT ![sending[c][i].chatId] = sending[c][i].content]
  /\ inbox' = Deliver(inbox, ioTo(rooms, sending[c][i].chatId), "newMessage", sending[c][i].sender)
  /\ sending' = [sending EXCEPT ![c] = Without(@, i)]
  /\ relayDropped' = FALSE
  /\ UNCHANGED <<sockets, connectedUsers, isOnline, lastSeen, rooms, messages, notServer>>

\* socket.on('typing'): socket.to(data.chatId).emit('userTyping', ...)
Typing(c, chatId) ==
  /\ sockets[c].st = "open"
  /\ inbox' = Deliver(inbox, socketTo(rooms, c, chatId), "userTyping", sockets[c].userId)
  /\ relayDropped' = FALSE
  /\ UNCHANGED <<sockets, connectedUsers, isOnline, lastSeen, rooms,
                 sending, messages, lastMessage, notServer>>

Joins == \E c \in Conns, r \in Chats : JoinChat(c, r)
Leaves == \E c \in Conns, r \in Chats : LeaveChat(c, r)
SendMessages == \E c \in Conns, r \in Chats, m \in Contents : SendMessage(c, r, m)
MessageSaves == \E c \in Conns : \E i \in 1..Len(sending[c]) : MessageSaved(c, i)
ChatUpdates == \E c \in Conns : \E i \in 1..Len(sending[c]) : ChatUpdated(c, i)
Typings == \E c \in Conns, r \in Chats : Typing(c, r)

\* The hub once both connections are up and s1 has authenticated as u1, with
\* s2 either still without identity or authenticated after it as u2.
HubAuthenticated ==
  \E two \in BOOLEAN :
    /\ sockets = [c \in Conns |->
                    [NewSocket EXCEPT !.st = "open",
                       !.userId = IF c = "s1" THEN "u1" ELSE IF two THEN "u2" ELSE "null"]]
    /\ connectedUsers = IF two THEN ("u1" :> "s1") @@ ("u2" :> "s2") ELSE ("u1" :> "s1")
    /\ isOnline = [u \in Users |-> u = "u1" \/ two]
    /\ lastSeen = [u \in Users |-> IF u = "u1" \/ two THEN "authenticate" ELSE "never"]
    /\ inbox = IF two
               THEN [c \in Conns |-> IF c = "s1" THEN [name |-> "userOnline", user |-> "u2"]
                                                 ELSE [name |-> "authenticated", user |-> "u2"]]
               ELSE [c \in Conns |-> IF c = "s1" THEN [name |-> "authenticated", user |-> "u1"]
                                                 ELSE [name |-> "userOnline", user |-> "u1"]]
    /\ relayDropped = FALSE

RoomsNext ==
  \/ Disconnects
  \/ DisconnectCompletes
  \/ Joins
  \/ Leaves
  \/ SendMessages
  \/ MessageSaves
  \/ ChatUpdates
  \/ Typings

\* ------------------------------------------------------- post mutations
MaxPosts == 1
MaxComments == 1
Exchanges == {"x1", "x2"}
Routes == {"createPost", "likePost", "addComment", "deletePost"}
\* The Authorization header of a request: absent, not verifying, or a user's.
Bearers == {"none", "garbage", "jwt-u1", "jwt-u2"}
Bodies == {"text", "empty"}
IdleHttp == [pc |-> "idle", route |-> "none", user |-> "null", post |-> 0, status |-> 0]

\* authenticateToken: the status it answers with, or 0 when it calls next().
authenticateToken(bearer) ==
  IF bearer = "none" THEN 401
  ELSE IF Verify(bearer) = "throws" THEN 403
  ELSE IF Verify(bearer) \notin Users THEN 401
  ELSE 0

\* The checks of a route before its write: the status of the early return, or
\* 0 when the handler goes on to save.
Rejects(route, user, post, body, coll) ==
  IF route = "createPost" THEN (IF body = "empty" THEN 400 ELSE 0)
  ELSE IF route = "addComment" /\ body = "empty" THEN 400
  ELSE IF post \notin DOMAIN coll THEN 404
  ELSE IF route = "deletePost" /\ coll[post].owner # user THEN 403
  ELSE 0

EventOf(route) ==
  IF route = "createPost" THEN "newPost"
  ELSE IF route = "likePost" THEN "postLiked"
  ELSE IF route = "addComment" THEN "newComment"
  ELSE "postDeleted"

\* io.emit: every connection.
EmitSkipsFirst(all) == all \ {"s1"}
ioEmit(all) == all

FeedInit ==
  /\ feed = <<>>
  /\ nextPostId = 1
  /\ http = [x \in Exchanges |-> IdleHttp]

\* A request arrives: authenticateToken, the route's validation and its
\* Post.findById; it is answered at once or goes on to its write.
HttpRequest(x, route, bearer, post, body) ==
  LET denied == authenticateToken(bearer)
      user == Verify(bearer)
      early == IF denied # 0 THEN denied ELSE Rejects(route, user, post, body, feed)
  IN
  /\ http[x].pc = "idle"
  /\ x = "x2" => http["x1"].pc # "idle"
  /\ route = "createPost" => post = 0
  /\ route # "createPost" => post \in 1..MaxPosts
  /\ (early = 0 /\ route = "createPost") =>
        nextPostId + Cardinality({y \in Exchanges : http[y].pc = "save" /\ http[y].route = route})
          <= MaxPosts
  /\ (early = 0 /\ route = "addComment") =>
        feed[post].comments
          + Cardinality({y \in Exchanges : http[y].pc = "save" /\ http[y].route = route /\ http[y].post = post})
          < MaxComments
  /\ http' = [http EXCEPT ![x] =
                IF early # 0
                THEN [IdleHttp EXCEPT !.pc = "done", !.route = route, !.status = early]
                ELSE [pc |-> "save", route |-> route, user |-> user, post |-> post, status |-> 0]]
  /\ UNCHANGED <<feed, nextPostId, hubVars, roomVars, notClient>>

\* The write of the route resolves: post.save() of a document that has been
\* deleted meanwhile rejects (500, nothing emitted); otherwise the collection
\* changes, the domain event is emitted and the success status is sent.
HttpSaved(x) ==
  LET r == http[x].route
      p == http[x].post
      u == http[x].user
      gone == r \in {"likePost", "addComment"} /\ p \notin DOMAIN feed
  IN
  /\ http[x].pc = "save"
  /\ feed' =
       IF gone THEN feed
       ELSE IF r = "createPost"
       THEN (nextPostId :> [owner |-> u, likedBy |-> {}, comments |-> 0]) @@ feed
       ELSE IF r = "likePost"
       THEN [feed EXCEPT ![p].likedBy = IF u \in @ THEN @ \ {u} ELSE @ \cup {u}]
       ELSE IF r = "addComment"
       THEN [feed EXCEPT ![p].comments = @ + 1]
       ELSE [q \in DOMAIN feed \ {p} |-> feed[q]]
  /\ nextPostId' = IF r = "createPost" THEN nextPostId + 1 ELSE nextPostId
  /\ inbox' = IF gone THEN inbox ELSE Deliver(inbox, ioEmit(Conns), EventOf(r), u)
  /\ http' = [http EXCEPT ![x].pc = "done",
                          ![x].status = IF gone THEN 500
                                        ELSE IF r \in {"createPost", "addComment"} THEN 201 ELSE 200]
  /\ relayDropped' = FALSE
  /\ UNCHANGED <<sockets, connectedUsers, isOnline, lastSeen, roomVars, notClient>>

\* The client has the response.
HttpAnswered(x) ==
  /\ http[x].pc = "done"
  /\ http' = [http EXCEPT ![x] = IdleHttp]
  /\ UNCHANGED <<feed, nextPostId, hubVars, roomVars, notClient>>

HttpRequests ==
  \E x \in Exchanges, r \in Routes, b \in Bearers, p \in 0..MaxPosts, t \in Bodies :
    HttpRequest(x, r, b, p, t)
HttpSaves == \E x \in Exchanges : HttpSaved(x)
HttpAnswers == \E x \in Exchanges : HttpAnswered(x)

FeedNext ==
  \/ Connects
  \/ Disconnects
  \/ HttpRequests
  \/ HttpSaves
  \/ HttpAnswers

\* ------------------------------------------- the replay at the API server
\* The replay request is built from the queued record (user, text, file) with
\* method and body only: it carries no Authorization header, and the record
\* holds no token.
ReplayBearer == "none"
\* POST /api/posts with that header and a text: the status of the early return
\* of authenticateToken or of the handler's validation, else 201.
CreatePostStatus(bearer, body) ==
  LET denied == authenticateToken(bearer)
      early == IF denied # 0 THEN denied
               ELSE Rejects("createPost", Verify(bearer), 0, body, feed)
  IN IF early # 0 THEN early ELSE 201

\* The replay fetch settles against the server: it throws without
\* connectivity, else the server's status decides response.ok.
ServerReplay(d) ==
  DrainSettle(d, net # "down" /\ Ok(CreatePostStatus(ReplayBearer, "text")))
ServerReplays == \E d \in Drains : ServerReplay(d)

ReplayNext ==
  \/ Connectivity
  \/ DbChange
  \/ PageTakesResponse
  \/ HandlePost
  \/ Sync
  \/ Fetch
  \/ ServerReplays
  \/ Notify

HubRest ==
  /\ sockets = <<>> /\ connectedUsers = <<>> /\ isOnline = <<>> /\ inbox = <<>>
  /\ relayDropped = FALSE /\ lastSeen = <<>>
\* --------------------------------------------------------- specifications
InitQueue == QueueInit /\ CacheRest /\ HubRest /\ RoomsInit /\ FeedInit
SpecQueue == InitQueue /\ [][QueueNext]_vars

SpecReplay == InitQueue /\ [][ReplayNext]_vars

InitCache == CacheInit /\ QueueRest /\ HubRest /\ RoomsInit /\ FeedInit
SpecCache == InitCache /\ [][CacheNext]_vars

InitDispatch == CacheInit /\ QueueRest /\ HubRest /\ RoomsInit /\ FeedInit
SpecDispatch == InitDispatch /\ [][DispatchNext]_vars

InitLifecycle == CacheRest /\ net = "down" /\ QueueRest /\ HubRest /\ RoomsInit /\ FeedInit
SpecLifecycle == InitLifecycle /\ [][LifecycleNext]_vars

QueueIdle == QueueRest /\ net = "accept"
InitHub == HubInit /\ QueueIdle /\ CacheRest /\ RoomsInit /\ FeedInit
SpecHub == InitHub /\ [][HubNext]_vars

InitRooms == HubAuthenticated /\ RoomsInit /\ QueueIdle /\ CacheRest /\ FeedInit
SpecRooms == InitRooms /\ [][RoomsNext]_vars

InitFeed == HubInit /\ FeedInit /\ RoomsInit /\ QueueIdle /\ CacheRest
SpecFeed == InitFeed /\ [][FeedNext]_vars

\* The connectivity-restoration signal keeps being delivered (the browser fires
\* 'sync' with tag 'background-post' again and again), and an invocation of
\* syncOfflinePosts that can take its next step takes it: fetches settle, the
\* event loop runs continuations.
StartDrain == \E d \in Drains : SyncEvent(d, "background-post")
FairSpecQueue ==
  /\ SpecQueue
  /\ WF_vars(StartDrain)
  /\ \A d \in Drains : WF_vars(DrainFetch(d)) /\ WF_vars(DrainResponse(d)) /\ WF_vars(DrainNotify(d))

\* ======================================================== queue properties
SentSet(d) == { drain[d].sent[i] : i \in 1..Len(drain[d].sent) }
LoopDone(d) == drain[d].pc = "loop" /\ drain[d].idx > Len(drain[d].snap)
\* The step in which the replay of drain d's current entry settles.
ReplaySettles(d) == drain[d].pc = "await" /\ drain'[d].pc = "loop"
\* The step in which a sync event starts drain d.
DrainStarts(d) == drain[d].pc = "idle" /\ drain'[d].pc = "loop"
\* The step in which handleOfflinePost hands its result to the page.
PostHandled == postResp = NoResp /\ postResp' # NoResp
Entry(k, m) == [id |-> k, user |-> m.user, text |-> m.text, file |-> m.file]

\* C1: one drain issues exactly one replay POST per entry that was in the queue
\* when it started, in ascending id order: the ids it has posted so far are
\* strictly ascending, are ids of the starting queue with no smaller id skipped,
\* and once the loop is over they are all of the starting queue's ids.
C1_OneReplayPerEntryInOrder ==
  \A d \in Drains :
    LET s == drain[d].sent IN
    /\ \A i, j \in 1..Len(s) : i < j => s[i] < s[j]
    /\ SentSet(d) \subseteq Ids(drain[d].q0)
    /\ \A k \in Ids(drain[d].q0) : \A i \in 1..Len(s) : k < s[i] => k \in SentSet(d)
    /\ LoopDone(d) => SentSet(d) = Ids(drain[d].q0)

\* A drain over a queue of two entries has finished its loop.
C1_Witness ==
  \E d \in Drains : LoopDone(d) /\ Len(drain[d].sent) >= 2

\* C2 (as stated): a replay answered ok removes its entry; a failed replay
\* (fetch throws, response not ok) leaves the queue as it was; the next drain
\* reads every entry still queued; a drain never adds entries.
C2_Original ==
  [][ \A d \in Drains :
        /\ ReplaySettles(d) =>
             IF net = "accept"
             THEN posts' = { p \in posts : p.id # drain[d].snap[drain[d].idx].id }
             ELSE posts' = posts
        /\ DrainStarts(d) => drain'[d].q0 = posts /\ posts' = posts
    ]_vars

\* C2 (amended): as C2, but an entry answered ok is removed only when the
\* delete transaction succeeds; when removeOfflinePost rejects, the entry stays
\* queued, unchanged, for the next drain.
C2_RemovedIffOkAndDeleted ==
  [][ \A d \in Drains :
        /\ ReplaySettles(d) =>
             IF net = "accept" /\ dbUp
             THEN posts' = { p \in posts : p.id # drain[d].snap[drain[d].idx].id }
             ELSE posts' = posts
        /\ DrainStarts(d) => drain'[d].q0 = posts /\ posts' = posts
    ]_vars

\* An ok replay has removed its entry from a queue of two, the other one stays.
C2_Witness ==
  \E d \in Drains :
    /\ drain[d].pc = "loop" /\ drain[d].idx = 2 /\ Len(drain[d].snap) = 2
    /\ drain[d].snap[1].id \notin Ids(posts)
    /\ drain[d].snap[2] \in posts
    /\ drain[d].snap[1].id \in delivered

\* C3 (as stated): whenever the network attempt of the POST fails and the store
\* is available, exactly one entry with the request's fields is added and the
\* caller gets the synthetic offline: true success.
C3_Original ==
  [][ (PostHandled /\ net = "down" /\ dbUp) =>
        /\ postResp'.kind = "offline"
        /\ posts' = posts \cup {Entry(nextId, postResp'.req)}
        /\ Cardinality(posts') = Cardinality(posts) + 1
    ]_vars

\* C4: when the network attempt fails and the store is unavailable, the caller
\* gets the failure (no offline: true success) and the queue is unchanged.
C4_StorageFailureSurfaced ==
  [][ (PostHandled /\ net = "down" /\ ~dbUp) =>
        /\ postResp'.kind = "error"
        /\ posts' = posts
        /\ nextId' = nextId
    ]_vars

\* The handler has rejected because storeOfflinePost rejected.
C4_Witness == postResp.kind = "error" /\ postResp.why = "storage"

UnderUploads(req) == Len(req.url.path) >= 2 /\ req.url.path[1] = "uploads"
\* The version tag of a cache name: what follows its last '-'.
TagOf(name) ==
  LET i == CHOOSE k \in 1..Len(name) :
             name[k] = "-" /\ \A j \in (k + 1)..Len(name) : name[j] # "-"
  IN  SubSeq(name, i + 1, Len(name))
CurrentTag == <<"v", "4">>

\* C6: a GET handled cache-first (static asset, uploaded media) whose URL had a
\* cached entry when the handler looked and which carries no Range header is
\* answered with the cached entry, and no network fetch is issued for it.
C6_CacheFirstHitSkipsNetwork ==
  (get.pc # "idle" /\ ~get.req.range /\
     \/ (get.strategy = "cacheFirst" /\ get.inAny)
     \/ (get.strategy = "media" /\ get.inMedia))
  => (get.pc = "done" /\ get.src = "cache" /\ ~get.fetched)

\* Both cache-first handlers are exercised on a hit: this is the media one ...
C6_Witness ==
  /\ get.pc = "done" /\ get.strategy = "media" /\ get.inMedia /\ ~get.req.range
  /\ get.src = "cache" /\ get.from = MEDIA_CACHE

\* C7: every GET under /uploads/ with a Range header issues a network fetch,
\* whether or not the media partition holds the URL.
C7_RangeMediaAlwaysFetches ==
  (get.pc # "idle" /\ UnderUploads(get.req) /\ get.req.range)
  => (get.strategy = "media" /\ get.fetched)

\* A Range request for a URL the media partition holds has gone to the network.
C7_Witness ==
  /\ get.pc = "done" /\ UnderUploads(get.req) /\ get.req.range
  /\ get.inMedia /\ get.fetched /\ get.src = "network"

\* C8 (as stated): a Range GET under /uploads/ is never answered with an entry
\* of the media partition, reachable network or not.
C8_Original ==
  (get.pc = "done" /\ UnderUploads(get.req) /\ get.req.range)
  => ~(get.src = "cache" /\ get.from = MEDIA_CACHE)

\* C8 (amended): a Range GET under /uploads/ is answered with the network
\* response whenever its fetch resolves, cached copy or not; only when the
\* fetch throws is it answered with the media partition's entry, if it has one.
C8_RangeMediaCacheOnlyOnFailure ==
  (get.pc = "done" /\ UnderUploads(get.req) /\ get.req.range)
  => /\ get.fetched
     /\ ~get.threw => get.src = "network"
     /\ get.threw => (get.src = "cache" /\ get.from = MEDIA_CACHE /\ get.inMedia)
                     \/ (get.src = "error" /\ ~get.inMedia)

\* A Range request was answered from the network although a full copy is cached.
C8_Witness ==
  /\ get.pc = "done" /\ UnderUploads(get.req) /\ get.req.range
  /\ get.inMedia /\ get.held.status = 200 /\ ~get.held.ranged
  /\ ~get.threw /\ get.src = "network" /\ get.status = 206

\* C9 (as stated): activation deletes every cache whose version tag differs
\* from the deployment's and leaves the caches of the matching tag, with their
\* entries, as they were.
C9_Original ==
  [][ (phase = "installed" /\ phase' = "active") =>
        /\ DOMAIN caches' = { n \in DOMAIN caches : TagOf(n) = CurrentTag }
        /\ \A n \in DOMAIN caches' : caches'[n] = caches[n]
    ]_vars

NetworkFirst == {"networkFirst", "navigate", "default"}

\* C18 (as stated): whenever the fetch of a GET handled network-first comes
\* back with a successful response, the handler returns that response and the
\* dynamic partition then holds it under the request's key.
C18_Original ==
  [][ (get.pc = "fetching" /\ get'.pc = "done" /\ get.strategy \in NetworkFirst
         /\ ~get'.threw /\ Ok(get'.status)) =>
        /\ get'.src = "network"
        /\ DYNAMIC_CACHE \in DOMAIN caches'
        /\ get.req.url \in DOMAIN caches'[DYNAMIC_CACHE]
        /\ caches'[DYNAMIC_CACHE][get.req.url] = StoredEntry(get'.status, get.req.range)
    ]_vars

\* C18 (amended): whenever the fetch of a GET handled network-first resolves,
\* the handler returns the network response; when the response is successful
\* (2xx) and not partial (206) the dynamic partition then holds it under the
\* request's key, and otherwise the partition's entry for the key, if any, is
\* what it was.
C18_NetworkFirstSuccess ==
  [][ (get.pc = "fetching" /\ get'.pc = "done" /\ get.strategy \in NetworkFirst /\ ~get'.threw) =>
        LET u == get.req.url
            had == DYNAMIC_CACHE \in DOMAIN caches /\ u \in DOMAIN caches[DYNAMIC_CACHE]
            has == DYNAMIC_CACHE \in DOMAIN caches' /\ u \in DOMAIN caches'[DYNAMIC_CACHE]
        IN
        /\ get'.src = "network"
        /\ IF Ok(get'.status) /\ get'.status # 206
           THEN has /\ caches'[DYNAMIC_CACHE][u] = StoredEntry(get'.status, get.req.range)
           ELSE has = had /\ (has => caches'[DYNAMIC_CACHE][u] = caches[DYNAMIC_CACHE][u])
        /\ \A n \in DOMAIN caches : n \in DOMAIN caches' /\
             \A k \in DOMAIN caches[n] : (n # DYNAMIC_CACHE \/ k # u) =>
                (k \in DOMAIN caches'[n] /\ caches'[n][k] = caches[n][k])
    ]_vars

\* The API request was answered 200 by the network and the dynamic partition
\* holds that response under its URL.
C18_Witness ==
  /\ get.pc = "done" /\ get.strategy = "networkFirst" /\ get.req.url = PostsUrl
  /\ get.src = "network" /\ get.status = 200 /\ ~get.threw
  /\ DYNAMIC_CACHE \in DOMAIN caches /\ PostsUrl \in DOMAIN caches[DYNAMIC_CACHE]
  /\ caches[DYNAMIC_CACHE][PostsUrl] = StoredEntry(200, FALSE)

\* C19 (as stated): when the fetch of a request handled network-first throws,
\* the handler answers with the cached entry for the request if some cache has
\* one; otherwise, for a navigation, with the offline document; otherwise it
\* rethrows.  Only navigations are answered with the offline document.
C19_Original ==
  [][ (get.pc = "fetching" /\ get'.pc = "done" /\ get.strategy \in NetworkFirst /\ get'.threw) =>
        IF Matches(caches, get.req.url) # {}
        THEN get'.src = "cache" /\ get'.from \in Matches(caches, get.req.url)
        ELSE IF get.req.mode = "navigate"
        THEN get'.src = "offlineDoc" /\ get'.from \in Matches(caches, IndexUrl)
        ELSE get'.src = "error"
    ]_vars

\* C19 (amended): as above, except that a navigation with no cached entry is
\* answered with the offline document only if some cache holds /index.html;
\* if none does the handler resolves with no response at all, which fails the
\* navigation.  The caches are not written on this path.
C19_NetworkFirstFailure ==
  [][ (get.pc = "fetching" /\ get'.pc = "done" /\ get.strategy \in NetworkFirst /\ get'.threw) =>
        /\ caches' = caches
        /\ IF Matches(caches, get.req.url) # {}
           THEN /\ get'.src = "cache" /\ get'.from \in Matches(caches, get.req.url)
                /\ get'.status = caches[get'.from][get.req.url].status
           ELSE IF get.req.mode = "navigate"
           THEN IF Matches(caches, IndexUrl) # {}
                THEN get'.src = "offlineDoc" /\ get'.from \in Matches(caches, IndexUrl)
                ELSE get'.src = "undefined"
           ELSE get'.src = "error"
    ]_vars

\* An offline navigation to a page no cache holds was answered with the
\* precached /index.html.
C19_Witness ==
  /\ get.pc = "done" /\ get.strategy = "navigate" /\ get.req.mode = "navigate"
  /\ get.threw /\ get.src = "offlineDoc" /\ get.from = STATIC_CACHE
  /\ Matches(caches, get.req.url) = {}

\* The entry of url u in cache n after a step is one the step wrote.
Written(n, u) ==
  /\ n \in DOMAIN caches' /\ u \in DOMAIN caches'[n]
  /\ (n \in DOMAIN caches /\ u \in DOMAIN caches[n]) => caches'[n][u] # caches[n][u]

\* C20 (as stated): when a cache-first handler (static asset or uploaded
\* media) has fetched from the network, it stores the response only if the
\* request carried no Range header and the status is exactly 200.
C20_Original ==
  [][ (get.pc = "fetching" /\ get'.pc = "done" /\ get.strategy \in {"cacheFirst", "media"}) =>
        \A n \in DOMAIN caches' :
          Written(n, get.req.url) => (~get.req.range /\ get'.status = 200 /\ ~get'.threw)
    ]_vars

\* C20 (amended): handleMediaRequest stores the fetched response, in the media
\* partition, exactly when the request carried no Range header and the status
\* is 200; cacheFirstStrategy stores it, in the static partition, whenever the
\* status is successful (2xx) and not 206, Range header or not; in every other
\* case the response is returned and no cache entry is written.
C20_CacheFirstMissStores ==
  [][ (get.pc = "fetching" /\ get'.pc = "done" /\ get.strategy \in {"cacheFirst", "media"}) =>
        LET u == get.req.url
            mine == IF get.strategy = "media" THEN MEDIA_CACHE ELSE STATIC_CACHE
            stores == IF get.strategy = "media"
                      THEN ~get.req.range /\ get'.status = 200 /\ MEDIA_CACHE \in DOMAIN caches
                      ELSE Ok(get'.status) /\ get'.status # 206
        IN
        /\ \A n \in DOMAIN caches' : Written(n, u) => (n = mine /\ stores /\ ~get'.threw)
        /\ (stores /\ ~get'.threw) =>
             /\ mine \in DOMAIN caches' /\ u \in DOMAIN caches'[mine]
             /\ caches'[mine][u] = StoredEntry(get'.status, get.req.range)
        /\ ~get'.threw => (get'.src = "network" /\ get'.status \in Answers(get.req))
    ]_vars

\* A static asset asked for with a Range header came back 200 from the network
\* and was stored in the static partition.
C20_Witness ==
  /\ get.pc = "done" /\ get.strategy = "cacheFirst" /\ get.req.range
  /\ get.src = "network" /\ get.status = 200
  /\ STATIC_CACHE \in DOMAIN caches /\ get.req.url \in DOMAIN caches[STATIC_CACHE]
  /\ caches[STATIC_CACHE][get.req.url] = StoredEntry(200, TRUE)

\* C21: in every reachable state the media partition holds no partial-range
\* response: none of its entries was stored for a request carrying a Range
\* header, and every entry has status 200.
C21_MediaHoldsFullResponsesOnly ==
  MEDIA_CACHE \in DOMAIN caches =>
    \A u \in DOMAIN caches[MEDIA_CACHE] :
      caches[MEDIA_CACHE][u].status = 200 /\ ~caches[MEDIA_CACHE][u].ranged

\* The media partition holds the full copy of the video while a Range request
\* for the same URL has just been answered 206 by the network.
C21_Witness ==
  /\ MEDIA_CACHE \in DOMAIN caches /\ VideoUrl \in DOMAIN caches[MEDIA_CACHE]
  /\ caches[MEDIA_CACHE][VideoUrl] = StoredEntry(200, FALSE)
  /\ get.pc = "done" /\ get.req.url = VideoUrl /\ get.req.range
  /\ get.src = "network" /\ get.status = 206

Partitions == {STATIC_CACHE, DYNAMIC_CACHE, MEDIA_CACHE}
Holding(u) == { n \in Partitions \cap DOMAIN caches : u \in DOMAIN caches[n] }

\* C22: every step of the worker that writes cache entries (install, a fetch
\* strategy, the periodic content sync) writes them into one partition, and in
\* every reachable state no request key has an entry in more than one of the
\* static, dynamic and media partitions.
C22_OnePartitionPerKey ==
  /\ [](\A n \in Partitions \cap DOMAIN caches :
          \A u \in DOMAIN caches[n] : Holding(u) = {n})
  /\ [][ \A n, m \in DOMAIN caches' :
           ((\E u \in DOMAIN caches'[n] : Written(n, u)) /\
            (\E u \in DOMAIN caches'[m] : Written(m, u))) => (n = m /\ n \in Partitions)
       ]_vars

\* All three partitions hold entries, each key in its own partition only.
C22_Witness ==
  /\ Holding(IndexUrl) = {STATIC_CACHE}
  /\ Holding(PostsUrl) = {DYNAMIC_CACHE}
  /\ Holding(FeedUrl) = {DYNAMIC_CACHE}
  /\ Holding(VideoUrl) = {MEDIA_CACHE}

\* C23: no request with another method than GET produces a cache entry: every
\* step that writes an entry is the install or the settling of a GET request;
\* of the non-GET requests only POST /api/posts is intercepted, by the
\* offline-queue path, which leaves the caches alone; every other non-GET
\* request is left to the browser, caches and queue untouched.
C23_NonGetNeverCached ==
  [][ /\ (\E n \in DOMAIN caches' : \E u \in DOMAIN caches'[n] : Written(n, u)) =>
           \/ phase = "new" /\ phase' = "installed"
           \/ get.pc = "fetching" /\ get.req.method = "GET"
      /\ \A req \in NonGetRequests :
           /\ OfflinePost(req) <=>
                (req.method = "POST" /\ req.url = PostsUrl /\ phase = "active" /\ HandlePost)
           /\ OfflinePost(req) => caches' = caches /\ get' = get
           /\ ((phase = "active" /\ get.pc = "idle" /\ get'.pc # "idle" /\ get'.req = req) =>
                 /\ req # Req("POST", PostsUrl)
                 /\ get'.src = "browser" /\ get'.pc = "done"
                 /\ caches' = caches /\ queueVars' = queueVars)
    ]_vars

\* A non-GET request was just left to the browser while the caches hold
\* entries and a POST /api/posts has been queued by the offline path.
C23_Witness ==
  /\ get.pc = "done" /\ get.strategy = "passthrough" /\ get.req = Req("DELETE", VideoUrl)
  /\ MEDIA_CACHE \in DOMAIN caches /\ VideoUrl \in DOMAIN caches[MEDIA_CACHE]
  /\ posts # {}

\* ========================================================== hub properties
\* C10: a direct relay (initiateCall, callResponse, webrtc-signal) whose target
\* has no entry in connectedUsers has no effect: no connection receives
\* anything, nothing is kept for later, and the map, the sockets and the user
\* documents are unchanged.  Only a relay handler delivers one of the three
\* relay events, and when it does the receiver is a socket the map names.
C10_RelayMissIsNoOp ==
  [][ /\ relayDropped' => UNCHANGED <<sockets, connectedUsers, isOnline, inbox>>
      /\ \A c \in Conns :
           (inbox'[c] # inbox[c] /\ inbox'[c].name \in RelayEvents) =>
             /\ \E u \in DOMAIN connectedUsers : connectedUsers[u] = c
             /\ \A d \in Conns \ {c} : inbox'[d] = inbox[d]
    ]_vars

\* A relay handler ran for a target without an entry while the other user is
\* registered on an open connection.
C10_Witness ==
  /\ relayDropped
  /\ \E u \in DOMAIN connectedUsers : sockets[connectedUsers[u]].st = "open"
  /\ \E u \in Users : u \notin DOMAIN connectedUsers

C13_AuthenticateFailure ==
  [][ \A c \in Conns :
        /\ \A t \in Tokens :
             (Authenticate(c, t) /\ Verify(t) = "throws") =>
               inbox'[c] = [name |-> "authError", user |-> "null"]
        /\ (inbox'[c] # inbox[c] /\ inbox'[c].name = "authError") =>
             /\ \A d \in Conns \ {c} : inbox'[d] = inbox[d]
             /\ UNCHANGED <<sockets, connectedUsers, isOnline, lastSeen>>
    ]_vars

\* s1 was refused: it holds authError and no identity, the map does not name
\* it, and s2, connected all along, did not hear of it.
C13_Witness ==
  /\ sockets["s1"].st = "open" /\ sockets["s1"].userId = "null" /\ sockets["s1"].auth = "idle"
  /\ inbox["s1"] = [name |-> "authError", user |-> "null"]
  /\ \A u \in DOMAIN connectedUsers : connectedUsers[u] # "s1"
  /\ sockets["s2"].st = "open" /\ inbox["s2"] = NoEvent

\* C14: when a connection that carries an identity u disconnects, the handler
\* removes u's entry from the connection map (and no other entry), and when
\* its presence update resolves u's document is offline with the last-seen
\* time of this disconnect and userOffline has gone to every other connected
\* connection.
C14_DisconnectCleansUp ==
  [][ \A c \in Conns :
        /\ (sockets[c].st = "open" /\ sockets'[c].st = "closed" /\ sockets[c].userId # "null") =>
             /\ DOMAIN connectedUsers' = DOMAIN connectedUsers \ {sockets[c].userId}
             /\ \A u \in DOMAIN connectedUsers' : connectedUsers'[u] = connectedUsers[u]
             /\ sockets'[c].disc = sockets[c].userId
        /\ (sockets[c].disc # "idle" /\ sockets'[c].disc = "idle") =>
             LET u == sockets[c].disc IN
             /\ ~isOnline'[u] /\ lastSeen'[u] = "disconnect"
             /\ \A v \in Users \ {u} : isOnline'[v] = isOnline[v] /\ lastSeen'[v] = lastSeen[v]
             /\ \A d \in Conns \ {c} : sockets[d].st = "open" => inbox'[d].name = "userOffline"
             /\ inbox'[c] = inbox[c]
    ]_vars

\* s1 was online as u1 and has disconnected: no entry for u1, the document is
\* offline, and s2, still connected, was told.
C14_Witness ==
  /\ sockets["s1"].st = "closed" /\ sockets["s1"].userId = "u1" /\ sockets["s1"].disc = "idle"
  /\ "u1" \notin DOMAIN connectedUsers
  /\ ~isOnline["u1"] /\ lastSeen["u1"] = "disconnect"
  /\ sockets["s2"].st = "open" /\ inbox["s2"] = [name |-> "userOffline", user |-> "u1"]

\* C15 (as stated): every connection follows unauthenticated -> authenticated
\* -> disconnected.  A new connection carries no identity; a connection that
\* carries one never loses it; and disconnected is terminal: a disconnected
\* connection stays disconnected, gets no identity attached afterwards, and is
\* not entered into the connection map afterwards.
C15_Original ==
  [][ \A c \in Conns :
        /\ (sockets[c].st = "new" /\ sockets'[c].st # "new") =>
             (sockets'[c].st = "open" /\ sockets'[c].userId = "null")
        /\ sockets[c].userId # "null" => sockets'[c].userId # "null"
        /\ sockets[c].st = "closed" =>
             /\ sockets'[c].st = "closed"
             /\ sockets'[c].userId = sockets[c].userId
             /\ \A u \in DOMAIN connectedUsers' :
                  connectedUsers'[u] = c => (u \in DOMAIN connectedUsers /\ connectedUsers[u] = c)
    ]_vars

\* ========================================================= room properties
\* C16: a room event reaches only the connections joined to the room when it
\* is broadcast.  The newMessage of a sendMessage for chat r goes to every
\* connected socket that has r among its rooms at that moment and to no other;
\* the userTyping of a typing event for r goes to those sockets except the
\* sender; a socket that never joined r, or joined and left, gets nothing.
C16_RoomEventsReachMembersOnly ==
  [][ \A c \in Conns :
        /\ \A i \in 1..Len(sending[c]) :
             ChatUpdated(c, i) =>
               \A d \in Conns :
                 inbox'[d] = IF sending[c][i].chatId \in rooms[d] /\ sockets[d].st = "open"
                             THEN [name |-> "newMessage", user |-> sending[c][i].sender]
                             ELSE inbox[d]
        /\ \A r \in Chats :
             Typing(c, r) =>
               \A d \in Conns :
                 inbox'[d] = IF r \in rooms[d] /\ d # c /\ sockets[d].st = "open"
                             THEN [name |-> "userTyping", user |-> sockets[c].userId]
                             ELSE inbox[d]
    ]_vars

\* s2 sits in both rooms and received u1's newMessage, which s1, having left
\* (or never joined) the room it wrote to, did not receive.
C16_Witness ==
  /\ rooms["s2"] = Chats
  /\ Len(messages) = 1 /\ messages[1].sender = "u1"
  /\ messages[1].chatId \notin rooms["s1"]
  /\ sending["s1"] = IdleSend
  /\ inbox["s2"] = [name |-> "newMessage", user |-> "u1"]
  /\ inbox["s1"].name # "newMessage"

\* ========================================================= feed properties
\* C17: a mutation route (create post, like, comment, delete post) that is
\* answered with a success status has emitted its domain event (newPost,
\* postLiked, newComment, postDeleted) once, to every connection connected at
\* that moment; a request that is rejected or whose write fails emits nothing;
\* and nothing but a succeeding mutation delivers an event.
C17_MutationsEmitOneEvent ==
  [][ /\ \A x \in Exchanges :
           (http[x].pc # "done" /\ http'[x].pc = "done") =>
             IF http'[x].status \in {200, 201}
             THEN /\ http[x].pc = "save"
                  /\ \A d \in Conns :
                       inbox'[d] = IF sockets[d].st = "open"
                                   THEN [name |-> EventOf(http[x].route), user |-> http[x].user]
                                   ELSE inbox[d]
             ELSE inbox' = inbox
      /\ inbox' # inbox =>
           \E x \in Exchanges :
             http[x].pc = "save" /\ http'[x].pc = "done" /\ http'[x].status \in {200, 201}
    ]_vars

\* Both connections hold the postDeleted of u1's successful delete while the
\* other exchange was refused with 403.
C17_Witness ==
  /\ \A d \in Conns : sockets[d].st = "open" /\ inbox[d] = [name |-> "postDeleted", user |-> "u1"]
  /\ http["x1"].pc = "done" /\ http["x1"].route = "deletePost" /\ http["x1"].status = 200
  /\ http["x2"].pc = "done" /\ http["x2"].status = 403
  /\ feed = <<>>

\* ======================================================= drain properties
\* C24: a failure while one queued entry is replayed (the fetch throws, the
\* response is not ok, or the removal fails) does not end the drain: the
\* settling of a replay always moves the loop to the next snapshot entry, and
\* the replays a drain has issued are always the snapshot's entries up to its
\* position, none skipped.
C24_FailureDoesNotAbortDrain ==
  /\ [][ \A d \in Drains : ReplaySettles(d) =>
             /\ drain'[d].idx = drain[d].idx + 1
             /\ drain'[d].snap = drain[d].snap
             /\ drain'[d].sent = drain[d].sent
       ]_vars
  /\ [](\A d \in Drains : drain[d].pc \in {"loop", "await"} =>
           /\ Len(drain[d].sent) = (IF drain[d].pc = "await" THEN drain[d].idx ELSE drain[d].idx - 1)
           /\ \A i \in 1..Len(drain[d].sent) : drain[d].sent[i] = drain[d].snap[i].id)

\* A drain is replaying its second entry although the replay of its first
\* entry was never answered ok.
C24_Witness ==
  \E d \in Drains :
    /\ drain[d].pc = "await" /\ drain[d].idx = 2
    /\ drain[d].snap[1].id \notin delivered
    /\ drain[d].snap[1].id \in Ids(posts)

\* The step in which drain d, its loop over, notifies the clients and ends.
DrainEnds(d) == drain[d].pc \in {"loop", "await"} /\ drain'[d].pc = "idle"
\* The replay of the only queued entry is answered ok.
OnlyEntryAnsweredOk(d) ==
  /\ ReplaySettles(d) /\ net = "accept"
  /\ Len(drain[d].snap) = 1 /\ posts = {drain[d].snap[1]}

\* C25 (as stated): a drain ends only with its loop over, and then every
\* client gets SYNC_COMPLETE with the number of entries the drain went through,
\* whatever the replays' outcomes; one queued entry replayed with an ok
\* response leaves the queue empty.
C25_Original ==
  [][ \A d \in Drains :
        /\ DrainEnds(d) =>
             /\ LoopDone(d)
             /\ \A c \in Clients :
                  clientMsgs'[c] = [type |-> "SYNC_COMPLETE", count |-> Len(drain[d].snap)]
        /\ OnlyEntryAnsweredOk(d) => posts' = {}
    ]_vars

\* C25 (amended): the same, except that the entry answered ok leaves the queue
\* only when its removal succeeds; when the delete rejects, the entry stays
\* queued and the clients are still told SYNC_COMPLETE with count 1.
C25_NotifiesWithProcessedCount ==
  [][ \A d \in Drains :
        /\ DrainEnds(d) =>
             /\ LoopDone(d)
             /\ \A c \in Clients :
                  clientMsgs'[c] = [type |-> "SYNC_COMPLETE", count |-> Len(drain[d].snap)]
        /\ OnlyEntryAnsweredOk(d) => posts' = (IF dbUp THEN {} ELSE posts)
    ]_vars

\* The clients were told SYNC_COMPLETE with count 1 after the only queued
\* entry was delivered and removed.
C25_Witness ==
  /\ \A c \in Clients : clientMsgs[c] = [type |-> "SYNC_COMPLETE", count |-> 1]
  /\ \A d \in Drains : drain[d].pc = "idle"
  /\ posts = {} /\ delivered = {1} /\ nextId = 2

\* C26 (as stated): whenever handleOfflinePost adds an entry to the queue it
\* has registered the background sync tag by the time it answers the caller.
C26_Original ==
  [][ (PostHandled /\ posts' # posts) => postResp'.registered ]_vars

\* C27 (as stated): at most one replay request is in flight at any moment,
\* whatever sync events arrive.
C27_Original ==
  \A d, e \in Drains : (drain[d].pc = "await" /\ drain[e].pc = "await") => d = e

\* C28: an entry enters the queue only in the handling of a POST whose network
\* attempt threw; an entry that stays queued keeps its id and payload; an entry
\* leaves the queue only in the step in which a replay of that entry is
\* answered ok; activation, content sync and the SKIP_WAITING,
\* GET_OFFLINE_COUNT and CLEAR_CACHE messages leave the queue as it is.
C28_QueueEntryLifecycle ==
  [][ /\ \A p \in posts' \ posts :
           /\ PostHandled /\ net = "down"
           /\ p = Entry(nextId, postResp'.req)
           /\ p.id \notin Ids(posts)
      /\ \A p \in posts \ posts' :
           /\ p.id \notin Ids(posts')
           /\ \E d \in Drains :
                /\ ReplaySettles(d) /\ net = "accept"
                /\ drain[d].snap[drain[d].idx] = p
      /\ (phase' # phase \/ caches' # caches \/ clientMsgs' # clientMsgs) => posts' = posts
    ]_vars

\* After activation, a content sync and a GET_OFFLINE_COUNT that counted two
\* entries, the first entry was replayed ok and removed; the second is queued.
C28_Witness ==
  /\ phase = "active"
  /\ DYNAMIC_CACHE \in DOMAIN caches
  /\ \E c \in Clients : clientMsgs[c] = [type |-> "OFFLINE_COUNT", count |-> 2]
  /\ delivered = {1} /\ Ids(posts) = {2}

\* ================================================= handler order properties
\* C29 (as stated): the sendMessage handlers of one connection run one after
\* the other in arrival order: a message is persisted only when every earlier
\* sendMessage of that connection has been persisted, and its newMessage is
\* broadcast only when every earlier one has been broadcast.
C29_Original ==
  [][ \A c \in Conns : \A i \in 1..Len(sending[c]) :
        /\ MessageSaved(c, i) => \A j \in 1..(i - 1) : sending[c][j].pc # "save"
        /\ ChatUpdated(c, i) => i = 1
    ]_vars

\* C30 (as stated): no entry of the connection map points to a disconnected
\* connection, and, once no authenticate or disconnect handler is in flight,
\* every identity whose presence is online has a connected connection
\* carrying it.
C30_Original ==
  /\ \A u \in DOMAIN connectedUsers : sockets[connectedUsers[u]].st # "closed"
  /\ (\A c \in Conns : sockets[c].auth = "idle" /\ sockets[c].disc = "idle") =>
        \A u \in Users :
          isOnline[u] => \E c \in Conns : sockets[c].st = "open" /\ sockets[c].userId = u

\* ================================================== implicit hub properties
\* C31 (as stated): while the connection the map names for an identity is
\* connected, the disconnect of another connection leaves that entry alone,
\* and when that disconnect's presence update resolves the identity stays
\* online and no userOffline is broadcast.
C31_Original ==
  [][ \A c \in Conns :
        /\ (sockets[c].st = "open" /\ sockets'[c].st = "closed") =>
             \A u \in DOMAIN connectedUsers :
               (connectedUsers[u] # c /\ sockets[connectedUsers[u]].st = "open") =>
                  (u \in DOMAIN connectedUsers' /\ connectedUsers'[u] = connectedUsers[u])
        /\ (sockets[c].disc # "idle" /\ sockets'[c].disc = "idle") =>
             LET u == sockets[c].disc IN
             (u \in DOMAIN connectedUsers /\ connectedUsers[u] # c
                /\ sockets[connectedUsers[u]].st = "open") =>
                  (isOnline'[u] = isOnline[u] /\ inbox' = inbox)
    ]_vars

\* ================================================ implicit drain properties
\* C32 (as stated): two drains that overlap never post the same queued entry:
\* the ids the running drains have posted are disjoint.
C32_Original ==
  \A d, e \in Drains : d # e => SentSet(d) \cap SentSet(e) = {}

\* C33 (as stated): the number in SYNC_COMPLETE is the number of entries the
\* drain delivered and removed: added to the number of entries of its
\* snapshot that are still queued when it ends, it gives the snapshot's length.
C33_Original ==
  [][ \A d \in Drains : DrainEnds(d) =>
        \A c \in Clients :
          clientMsgs'[c].count + Cardinality(Ids(drain[d].q0) \cap Ids(posts))
            = Len(drain[d].snap)
    ]_vars

\* C34 (as stated): the replay of a queued create-post is accepted by the
\* server's POST /api/posts, so a replay that settles with connectivity and
\* an available store removes its entry from the queue.
C34_Original ==
  [][ \A d \in Drains :
        (ReplaySettles(d) /\ net # "down" /\ dbUp) =>
           drain[d].snap[drain[d].idx].id \notin Ids(posts')
    ]_vars

C36_UnauthenticatedSendRejected ==
  [][ \A c \in Conns, r \in Chats, m \in Contents :
        (SendMessage(c, r, m) /\ sockets[c].userId = "null") =>
           /\ inbox'[c] = [name |-> "error", user |-> "null"]
           /\ \A d \in Conns \ {c} : inbox'[d] = inbox[d]
           /\ messages' = messages /\ sending' = sending
           /\ lastMessage' = lastMessage
    ]_vars

\* s2, not authenticated, got error for its sendMessage; nothing was
\* persisted and s1, joined to both chats, received no newMessage.
C36_Witness ==
  /\ sockets["s2"].st = "open" /\ sockets["s2"].userId = "null"
  /\ inbox["s2"] = [name |-> "error", user |-> "null"]
  /\ rooms["s1"] = Chats /\ inbox["s1"].name # "newMessage"
  /\ messages = <<>> /\ \A r \in Chats : lastMessage[r] = "none"

====
